---- MODULE Spec2Model ----
(***************************************************************************)
(* Model of Verilator's instruction-count estimator, V3InstrCount.cpp:     *)
(* InstrCountVisitor (the estimator with its duplicate-visit guard),       *)
(* InstrCountDumpVisitor (the diagnostic printer) and V3InstrCount::count. *)
(*                                                                         *)
(* A program tree is a record of functions over node ids 1..N:             *)
(*   kind[n]        the visit() overload the node dispatches to            *)
(*   cost[n]        nodep->instrCount(), the intrinsic cost                *)
(*   ops[n]         <<op1, op2, op3, op4>>, each a sibling list of ids     *)
(*   funcp[n]       the callee body a call site links to (0: none)         *)
(*   branchPred[n]  the branch-likelihood hint of a conditional statement  *)
(*   roots          the nodes the caller issues queries on                 *)
(* The visitor's members are the fields of a record threaded through the   *)
(* visit operators; a failed UASSERT_OBJ is fatal and ends the traversal:  *)
(* it is recorded in the field err and every later step leaves the record *)
(* unchanged.                                                              *)
(***************************************************************************)
EXTENDS Integers, Sequences, FiniteSets

VARIABLES tree, user1, user2, batch, last, output

vars == <<tree, user1, user2, batch, last, output>>

(***************************************************************************)
(* Bounds of the model.                                                    *)
(***************************************************************************)
\* Intrinsic costs are drawn from 0..MaxCost.
MaxCost == 1
\* The intrinsic cost of a node of a large select base.
BigCost == 1000

\* m_instrCount is a uint32_t.  The costs of the model stay far below 2^32
\* (at most a few dozen nodes of cost at most MaxCost + 1), so the sums
\* below never wrap and are written as plain integer sums.

(***************************************************************************)
(* Tree accessors.                                                         *)
(***************************************************************************)
NodesOf(t) == DOMAIN t.kind

op1p(t, n) == t.ops[n][1]
op2p(t, n) == t.ops[n][2]
op3p(t, n) == t.ops[n][3]
op4p(t, n) == t.ops[n][4]

\* AstNodeIf / AstNodeCond: condition, then and else lists.
condp(t, n) == op1p(t, n)
thensp(t, n) == op2p(t, n)
elsesp(t, n) == op3p(t, n)
\* AstNodeSel: fromp (not visited), bitp.  AstSel: fromp, lsbp, widthp.
fromp(t, n) == op1p(t, n)
bitp(t, n) == op2p(t, n)
lsbp(t, n) == op2p(t, n)
widthp(t, n) == op3p(t, n)
\* AstFork: the forked statements.
stmtsp(t, n) == op2p(t, n)

\* The nodes of every child list of n, in iteration order.
ChildSeq(t, n) == op1p(t, n) \o op2p(t, n) \o op3p(t, n) \o op4p(t, n)

Range(s) == {s[i] : i \in DOMAIN s}

RECURSIVE SubtreeOf(_, _)
\* The nodes of the subtree rooted at n (child links only, not funcp).
SubtreeOf(t, n) ==
    {n} \cup UNION {SubtreeOf(t, c) : c \in Range(ChildSeq(t, n))}

(***************************************************************************)
(* InstrCountVisitor.                                                      *)
(***************************************************************************)
\* The members after construction, before the root is iterated.  user2 is
\* cleared by the VNUser2InUse member; user1 belongs to the caller.
NewVisitor(t, u1) ==
    [instrCount |-> 0,
     tracingCall |-> FALSE,
     inCFunc |-> FALSE,
     ignoreRemaining |-> FALSE,
     user1 |-> u1,
     user2 |-> [n \in NodesOf(t) |-> 0],
     callStack |-> {},
     err |-> "none",
     errNode |-> 0]

Ok(st) == st.err = "none"

\* UASSERT_OBJ failure: v3fatal, the process ends.
Fatal(st, what, n) ==
    IF Ok(st) THEN [st EXCEPT !.err = what, !.errNode = n] ELSE st

\* Fault variant of reset: the running count is kept.
reset_keepCount(st) ==
    IF Ok(st) THEN [st EXCEPT !.ignoreRemaining = FALSE] ELSE st

reset(st) ==
    IF Ok(st) THEN [st EXCEPT !.instrCount = 0, !.ignoreRemaining = FALSE]
    ELSE st

setIgnoreRemaining(st, b) ==
    IF Ok(st) THEN [st EXCEPT !.ignoreRemaining = b] ELSE st

setInstrCount(st, c) ==
    IF Ok(st) THEN [st EXCEPT !.instrCount = c] ELSE st

\* Fault variant of startVisitBase: the duplicate check is also made inside
\* function bodies.
startVisitBase_checkInCFunc(t, q, n, st) ==
    IF ~Ok(st) THEN st
    ELSE IF st.ignoreRemaining THEN Fatal(st, "ignoring", n)
    ELSE IF q.assertNoDups
         THEN IF st.user1[n] # 0
              THEN Fatal(st, "dup", n)
              ELSE [st EXCEPT !.user1[n] = q.startNode,
                              !.instrCount = t.cost[n]]
         ELSE [st EXCEPT !.instrCount = t.cost[n]]

\* Fault variant of startVisitBase: the duplicate check does not look at the
\* call's assertNoDups argument.
startVisitBase_alwaysCheck(t, q, n, st) ==
    IF ~Ok(st) THEN st
    ELSE IF st.ignoreRemaining THEN Fatal(st, "ignoring", n)
    ELSE IF ~st.inCFunc
         THEN IF st.user1[n] # 0
              THEN Fatal(st, "dup", n)
              ELSE [st EXCEPT !.user1[n] = q.startNode,
                              !.instrCount = t.cost[n]]
         ELSE [st EXCEPT !.instrCount = t.cost[n]]

\* Fault variant of startVisitBase: the marker is written before it is
\* checked.
startVisitBase_markFirst(t, q, n, st) ==
    IF ~Ok(st) THEN st
    ELSE IF st.ignoreRemaining THEN Fatal(st, "ignoring", n)
    ELSE IF q.assertNoDups /\ ~st.inCFunc
         THEN IF st.user1[n] # 0
              THEN Fatal([st EXCEPT !.user1[n] = q.startNode], "dup", n)
              ELSE [st EXCEPT !.user1[n] = q.startNode,
                              !.instrCount = t.cost[n]]
         ELSE [st EXCEPT !.instrCount = t.cost[n]]

\* Fault variant of startVisitBase: the marker is set without the assertion.
startVisitBase_noAssert(t, q, n, st) ==
    IF ~Ok(st) THEN st
    ELSE IF st.ignoreRemaining THEN Fatal(st, "ignoring", n)
    ELSE IF q.assertNoDups /\ ~st.inCFunc
         THEN [st EXCEPT !.user1[n] = q.startNode,
                         !.instrCount = t.cost[n]]
         ELSE [st EXCEPT !.instrCount = t.cost[n]]

\* Fault variant of startVisitBase: the intrinsic cost is charged only under
\* duplicate checking.
startVisitBase_chargeWhenChecking(t, q, n, st) ==
    IF ~Ok(st) THEN st
    ELSE IF st.ignoreRemaining THEN Fatal(st, "ignoring", n)
    ELSE IF q.assertNoDups /\ ~st.inCFunc
         THEN IF st.user1[n] # 0
              THEN Fatal(st, "dup", n)
              ELSE [st EXCEPT !.user1[n] = q.startNode,
                              !.instrCount = t.cost[n]]
         ELSE [st EXCEPT !.instrCount = 0]

startVisitBase(t, q, n, st) ==
    IF ~Ok(st) THEN st
    ELSE IF st.ignoreRemaining THEN Fatal(st, "ignoring", n)
    ELSE IF q.assertNoDups /\ ~st.inCFunc
         THEN IF st.user1[n] # 0
              THEN Fatal(st, "dup", n)
              ELSE [st EXCEPT !.user1[n] = q.startNode,
                              !.instrCount = t.cost[n]]
         ELSE [st EXCEPT !.instrCount = t.cost[n]]

\* Fault variant of markCost: the stamp is written without a sink too.
markCost_always(q, n, st) ==
    IF Ok(st) THEN [st EXCEPT !.user2[n] = st.instrCount + 1] ELSE st

markCost(q, n, st) ==
    IF Ok(st) /\ q.osp
    THEN [st EXCEPT !.user2[n] = st.instrCount + 1]
    ELSE st

\* Fault variant of endVisitBase: the saved count is never added back.
endVisitBase_dropSaved(q, savedCount, n, st) ==
    IF ~Ok(st) THEN st ELSE markCost(q, n, st)

endVisitBase(q, savedCount, n, st) ==
    IF ~Ok(st) THEN st
    ELSE LET s1 == markCost(q, n, st)
         IN  IF ~s1.ignoreRemaining
             THEN [s1 EXCEPT !.instrCount = s1.instrCount + savedCount]
             ELSE s1

\* nodep->elsesp()->user2(0): the head of a list, when the list is not empty.
clearUser2Head(list, st) ==
    IF Ok(st) /\ list # <<>> THEN [st EXCEPT !.user2[Head(list)] = 0] ELSE st

RECURSIVE visit(_, _, _, _)
RECURSIVE iterateAndNextConstNull(_, _, _, _)

\* Visit every node of a sibling list in order.
iterateAndNextConstNull(t, q, list, st) ==
    IF list = <<>> \/ ~Ok(st) THEN st
    ELSE iterateAndNextConstNull(t, q, Tail(list), visit(t, q, Head(list), st))

iterateChildrenConst(t, q, n, st) ==
    iterateAndNextConstNull(t, q, ChildSeq(t, n), st)

\* Fault variant of visit(AstNodeSel*): every child is iterated, fromp too.
visitNodeSel_countFrom(t, q, n, st) ==
    IF st.ignoreRemaining THEN st
    ELSE LET savedCount == st.instrCount
             s1 == startVisitBase(t, q, n, st)
             s2 == iterateChildrenConst(t, q, n, s1)
         IN  endVisitBase(q, savedCount, n, s2)

visitNodeSel(t, q, n, st) ==
    IF st.ignoreRemaining THEN st
    ELSE LET savedCount == st.instrCount
             s1 == startVisitBase(t, q, n, st)
             s2 == iterateAndNextConstNull(t, q, bitp(t, n), s1)
         IN  endVisitBase(q, savedCount, n, s2)

visitSel(t, q, n, st) ==
    IF st.ignoreRemaining THEN st
    ELSE LET savedCount == st.instrCount
             s1 == startVisitBase(t, q, n, st)
             s2 == iterateAndNextConstNull(t, q, lsbp(t, n), s1)
         IN  endVisitBase(q, savedCount, n, s2)

\* Fault variant of visit(AstConcat*): the node is counted like any other.
visitConcat_counted(t, q, n, st) ==
    IF st.ignoreRemaining THEN st
    ELSE LET savedCount == st.instrCount
             s1 == startVisitBase(t, q, n, st)
             s2 == iterateChildrenConst(t, q, n, s1)
         IN  endVisitBase(q, savedCount, n, s2)

visitConcat(t, q, n, st) ==
    IF st.ignoreRemaining THEN st
    ELSE markCost(q, n, iterateChildrenConst(t, q, n, st))

\* The tail of visit(AstNodeIf*) and visit(AstNodeCond*): keep the larger
\* branch and clear the stamp of the head of the other.
pickBranch(savedCount, ifCount, elseCount, thenList, elseList, st) ==
    LET s1 == reset(st)
    IN  IF ifCount >= elseCount
        THEN clearUser2Head(elseList,
                            setInstrCount(s1, savedCount + ifCount))
        ELSE clearUser2Head(thenList,
                            setInstrCount(s1, savedCount + elseCount))

\* Fault variant of visit(AstNodeIf*): the branch-likelihood hint is ignored.
visitNodeIf_noHint(t, q, n, st) ==
    IF st.ignoreRemaining THEN st
    ELSE LET vbSaved == st.instrCount
             s1 == startVisitBase(t, q, n, st)
             s2 == iterateAndNextConstNull(t, q, condp(t, n), s1)
             savedCount == s2.instrCount
             s3 == iterateAndNextConstNull(t, q, thensp(t, n), reset(s2))
             s4 == iterateAndNextConstNull(t, q, elsesp(t, n), reset(s3))
             s5 == pickBranch(savedCount, s3.instrCount, s4.instrCount,
                              thensp(t, n), elsesp(t, n), s4)
         IN  endVisitBase(q, vbSaved, n, s5)

visitNodeIf(t, q, n, st) ==
    IF st.ignoreRemaining THEN st
    ELSE LET vbSaved == st.instrCount
             s1 == startVisitBase(t, q, n, st)
             s2 == iterateAndNextConstNull(t, q, condp(t, n), s1)
             savedCount == s2.instrCount
             s3 == iterateAndNextConstNull(t, q, thensp(t, n), reset(s2))
             ifCount == IF t.branchPred[n] = "unlikely" THEN 0
                        ELSE s3.instrCount
             s4 == iterateAndNextConstNull(t, q, elsesp(t, n), reset(s3))
             elseCount == IF t.branchPred[n] = "likely" THEN 0
                          ELSE s4.instrCount
             s5 == pickBranch(savedCount, ifCount, elseCount,
                              thensp(t, n), elsesp(t, n), s4)
         IN  endVisitBase(q, vbSaved, n, s5)

visitNodeCond(t, q, n, st) ==
    IF st.ignoreRemaining THEN st
    ELSE LET vbSaved == st.instrCount
             s1 == startVisitBase(t, q, n, st)
             s2 == iterateAndNextConstNull(t, q, condp(t, n), s1)
             savedCount == s2.instrCount
             s3 == iterateAndNextConstNull(t, q, thensp(t, n), reset(s2))
             ifCount == s3.instrCount
             s4 == iterateAndNextConstNull(t, q, elsesp(t, n), reset(s3))
             elseCount == s4.instrCount
             s5 == pickBranch(savedCount, ifCount, elseCount,
                              thensp(t, n), elsesp(t, n), s4)
         IN  endVisitBase(q, vbSaved, n, s5)

\* Fault variant of visit(AstCAwait*): the remaining statements are kept.
visitCAwait_noIgnore(t, q, n, st) ==
    IF st.ignoreRemaining THEN st ELSE iterateChildrenConst(t, q, n, st)

visitCAwait(t, q, n, st) ==
    IF st.ignoreRemaining THEN st
    ELSE setIgnoreRemaining(iterateChildrenConst(t, q, n, st), TRUE)

RECURSIVE forkLoop(_, _, _, _, _)
\* The loop of visit(AstFork*): <<state, totalCount>> after the statements.
forkLoop(t, q, list, totalCount, st) ==
    IF list = <<>> \/ ~Ok(st) THEN <<st, totalCount>>
    ELSE LET s1 == visit(t, q, Head(list), reset(st))
         IN  forkLoop(t, q, Tail(list), totalCount + s1.instrCount, s1)

\* Fault variant of visit(AstFork*): m_ignoreRemaining is left as the last
\* forked statement set it.
visitFork_keepIgnore(t, q, n, st) ==
    IF st.ignoreRemaining THEN st
    ELSE LET savedCount == st.instrCount
             s1 == startVisitBase(t, q, n, st)
             r == forkLoop(t, q, stmtsp(t, n), s1.instrCount, s1)
             s2 == setInstrCount(r[1], r[2])
         IN  endVisitBase(q, savedCount, n, s2)

visitFork(t, q, n, st) ==
    IF st.ignoreRemaining THEN st
    ELSE LET savedCount == st.instrCount
             s1 == startVisitBase(t, q, n, st)
             r == forkLoop(t, q, stmtsp(t, n), s1.instrCount, s1)
             s2 == setIgnoreRemaining(setInstrCount(r[1], r[2]), FALSE)
         IN  endVisitBase(q, savedCount, n, s2)

\* Fault variant of visit(AstActive*): it returns at once when the remaining
\* statements are ignored, as the other overloads do.
visitActive_skipIgnored(t, q, n, st) ==
    IF st.ignoreRemaining THEN st
    ELSE LET s1 == markCost(q, n, st)
         IN  IF n = q.startNode THEN s1 ELSE Fatal(s1, "active", n)

\* Fault variant of visit(AstActive*): a trigger node at the root is counted
\* with its children like a generic node.
visitActive_recurse(t, q, n, st) ==
    IF n # q.startNode THEN Fatal(markCost(q, n, st), "active", n)
    ELSE LET savedCount == st.instrCount
             s1 == startVisitBase(t, q, n, st)
             s2 == iterateChildrenConst(t, q, n, s1)
         IN  endVisitBase(q, savedCount, n, s2)

visitActive(t, q, n, st) ==
    LET s1 == markCost(q, n, st)
    IN  IF n = q.startNode THEN s1 ELSE Fatal(s1, "active", n)

\* Fault variant of visit(AstCFunc*): a body that is neither traced nor the
\* start node is accepted.
visitCFunc_anywhere(t, q, n, st) ==
    IF ~Ok(st) THEN st
    ELSE IF st.ignoreRemaining THEN Fatal(st, "cfuncIgnoring", n)
    ELSE IF n \in st.callStack THEN Fatal(st, "stackOverflow", n)
    ELSE LET savedInCFunc == st.inCFunc
             savedCount == st.instrCount
             s0 == [st EXCEPT !.tracingCall = FALSE, !.inCFunc = TRUE,
                              !.callStack = st.callStack \cup {n}]
             s1 == startVisitBase(t, q, n, s0)
             s2 == iterateChildrenConst(t, q, n, s1)
             s3 == endVisitBase(q, savedCount, n, s2)
         IN  IF Ok(s3)
             THEN [s3 EXCEPT !.ignoreRemaining = FALSE,
                             !.inCFunc = savedInCFunc,
                             !.callStack = st.callStack]
             ELSE s3

\* Fault variant of visit(AstCFunc*): m_ignoreRemaining is left as the body
\* set it.
visitCFunc_keepIgnore(t, q, n, st) ==
    IF ~Ok(st) THEN st
    ELSE IF ~(st.tracingCall \/ n = q.startNode) THEN Fatal(st, "cfunc", n)
    ELSE IF st.ignoreRemaining THEN Fatal(st, "cfuncIgnoring", n)
    ELSE IF n \in st.callStack THEN Fatal(st, "stackOverflow", n)
    ELSE LET savedInCFunc == st.inCFunc
             savedCount == st.instrCount
             s0 == [st EXCEPT !.tracingCall = FALSE, !.inCFunc = TRUE,
                              !.callStack = st.callStack \cup {n}]
             s1 == startVisitBase(t, q, n, s0)
             s2 == iterateChildrenConst(t, q, n, s1)
             s3 == endVisitBase(q, savedCount, n, s2)
         IN  IF Ok(s3)
             THEN [s3 EXCEPT !.inCFunc = savedInCFunc,
                             !.callStack = st.callStack]
             ELSE s3

\* Fault variant of visit(AstCFunc*): m_inCFunc is not restored.
visitCFunc_noRestore(t, q, n, st) ==
    IF ~Ok(st) THEN st
    ELSE IF ~(st.tracingCall \/ n = q.startNode) THEN Fatal(st, "cfunc", n)
    ELSE IF st.ignoreRemaining THEN Fatal(st, "cfuncIgnoring", n)
    ELSE IF n \in st.callStack THEN Fatal(st, "stackOverflow", n)
    ELSE LET savedCount == st.instrCount
             s0 == [st EXCEPT !.tracingCall = FALSE, !.inCFunc = TRUE,
                              !.callStack = st.callStack \cup {n}]
             s1 == startVisitBase(t, q, n, s0)
             s2 == iterateChildrenConst(t, q, n, s1)
             s3 == endVisitBase(q, savedCount, n, s2)
         IN  IF Ok(s3)
             THEN [s3 EXCEPT !.ignoreRemaining = FALSE,
                             !.callStack = st.callStack]
             ELSE s3

\* callStack holds the callee bodies being traversed.  Inside a body
\* m_inCFunc is set and m_ignoreRemaining is clear on entry, so a body
\* entered again while it is being traversed repeats the traversal that led
\* to the entry: the recursion has no end and exhausts the native stack.
visitCFunc(t, q, n, st) ==
    IF ~Ok(st) THEN st
    ELSE IF ~(st.tracingCall \/ n = q.startNode) THEN Fatal(st, "cfunc", n)
    ELSE IF st.ignoreRemaining THEN Fatal(st, "cfuncIgnoring", n)
    ELSE IF n \in st.callStack THEN Fatal(st, "stackOverflow", n)
    ELSE LET savedInCFunc == st.inCFunc
             savedCount == st.instrCount
             s0 == [st EXCEPT !.tracingCall = FALSE, !.inCFunc = TRUE,
                              !.callStack = st.callStack \cup {n}]
             s1 == startVisitBase(t, q, n, s0)
             s2 == iterateChildrenConst(t, q, n, s1)
             s3 == endVisitBase(q, savedCount, n, s2)
         IN  IF Ok(s3)
             THEN [s3 EXCEPT !.ignoreRemaining = FALSE,
                             !.inCFunc = savedInCFunc,
                             !.callStack = st.callStack]
             ELSE s3

visitNodeCCall(t, q, n, st) ==
    IF st.ignoreRemaining THEN st
    ELSE LET savedCount == st.instrCount
             s1 == startVisitBase(t, q, n, st)
             s2 == iterateChildrenConst(t, q, n, s1)
             s3 == IF Ok(s2) THEN [s2 EXCEPT !.tracingCall = TRUE] ELSE s2
             s4 == visit(t, q, t.funcp[n], s3)
             s5 == IF Ok(s4) /\ s4.tracingCall
                   THEN Fatal(s4, "tracingCall", n) ELSE s4
         IN  endVisitBase(q, savedCount, n, s5)

\* Fault variant of visit(AstNode*): no return when the remaining statements
\* are ignored.
visitNode_enterIgnored(t, q, n, st) ==
    LET savedCount == st.instrCount
        s1 == startVisitBase(t, q, n, st)
        s2 == iterateChildrenConst(t, q, n, s1)
    IN  endVisitBase(q, savedCount, n, s2)

visitNode(t, q, n, st) ==
    IF st.ignoreRemaining THEN st
    ELSE LET savedCount == st.instrCount
             s1 == startVisitBase(t, q, n, st)
             s2 == iterateChildrenConst(t, q, n, s1)
         IN  endVisitBase(q, savedCount, n, s2)

\* nodep->accept(v): dispatch on the node's kind.
visit(t, q, n, st) ==
    IF ~Ok(st) THEN st
    ELSE CASE t.kind[n] = "NodeSel" -> visitNodeSel(t, q, n, st)
           [] t.kind[n] = "Sel" -> visitSel(t, q, n, st)
           [] t.kind[n] = "Concat" -> visitConcat(t, q, n, st)
           [] t.kind[n] = "NodeIf" -> visitNodeIf(t, q, n, st)
           [] t.kind[n] = "NodeCond" -> visitNodeCond(t, q, n, st)
           [] t.kind[n] = "CAwait" -> visitCAwait(t, q, n, st)
           [] t.kind[n] = "Fork" -> visitFork(t, q, n, st)
           [] t.kind[n] = "Active" -> visitActive(t, q, n, st)
           [] t.kind[n] = "NodeCCall" -> visitNodeCCall(t, q, n, st)
           [] t.kind[n] = "CFunc" -> visitCFunc(t, q, n, st)
           [] OTHER -> visitNode(t, q, n, st)

\* InstrCountVisitor's constructor: iterate the start node.
InstrCountVisitor(t, u1, q) == visit(t, q, q.startNode, NewVisitor(t, u1))

(***************************************************************************)
(* InstrCountDumpVisitor.                                                  *)
(***************************************************************************)
RECURSIVE dumpVisit(_, _, _, _)
RECURSIVE dumpList(_, _, _, _)

\* The lines printed for a sibling list whose parent is at depth `depth`.
dumpList(t, u2, list, depth) ==
    IF list = <<>> THEN <<>>
    ELSE dumpVisit(t, u2, Head(list), depth)
         \o dumpList(t, u2, Tail(list), depth)

\* Fault variant of the printer's visit(AstNode*): the children are iterated
\* whether or not the node is stamped.
dumpVisit_descendAlways(t, u2, n, depth) ==
    (IF u2[n] # 0
     THEN <<[indent |-> depth + 1, cost |-> u2[n] - 1, node |-> n]>>
     ELSE <<>>)
    \o dumpList(t, u2, ChildSeq(t, n), depth + 1)

\* visit(AstNode*) with m_depth = depth on entry: the lines it prints.
dumpVisit(t, u2, n, depth) ==
    IF u2[n] # 0
    THEN <<[indent |-> depth + 1, cost |-> u2[n] - 1, node |-> n]>>
         \o dumpList(t, u2, ChildSeq(t, n), depth + 1)
    ELSE <<>>

(***************************************************************************)
(* V3InstrCount::count as the one operation of the state machine.          *)
(*                                                                         *)
(*   user1, user2   the two per-node slots; user1 lives across queries,    *)
(*                  user2 is released when a query returns                 *)
(*   batch          roots of the duplicate-checked queries that returned   *)
(*   last           the latest query: its arguments, how it ended, the     *)
(*                  visitor's members and the user2 stamps at the end of   *)
(*                  the traversal, and batch before it                     *)
(*   output         the lines the latest query printed to its sink         *)
(***************************************************************************)
NoCall == [root |-> 0, assertNoDups |-> FALSE, osp |-> FALSE,
           err |-> "none", errNode |-> 0, cost |-> 0,
           ignoreRemaining |-> FALSE, tracingCall |-> FALSE,
           inCFunc |-> FALSE, user2 |-> <<>>, before |-> {}]

\* A fatal error ended the process: no further query is issued.
Aborted == last.err # "none"

count(root, assertNoDups, osp) ==
    /\ ~Aborted
    \* v: the visitor after its constructor ran (evaluated once).
    /\ \E v \in {InstrCountVisitor(tree, user1,
                                    [startNode |-> root,
                                     assertNoDups |-> assertNoDups,
                                     osp |-> osp])} :
           /\ user1' = v.user1
           \* ~InstrCountVisitor releases user2 (m_inuser2) when count returns;
           \* a fatal error ends the process with the stamps in place.
           /\ user2' = IF Ok(v) THEN [n \in NodesOf(tree) |-> 0]
                        ELSE v.user2
           /\ output' = IF Ok(v) /\ osp
                        THEN dumpVisit(tree, v.user2, root, 0)
                        ELSE <<>>
           /\ last' = [root |-> root, assertNoDups |-> assertNoDups,
                       osp |-> osp, err |-> v.err, errNode |-> v.errNode,
                       cost |-> IF Ok(v) THEN v.instrCount ELSE 0,
                       ignoreRemaining |-> v.ignoreRemaining,
                       tracingCall |-> v.tracingCall,
                       inCFunc |-> v.inCFunc,
                       user2 |-> v.user2,
                       before |-> batch]
           /\ batch' = IF Ok(v) /\ assertNoDups THEN batch \cup {root}
                       ELSE batch
    /\ UNCHANGED tree

Count == \E root \in tree.roots, assertNoDups \in BOOLEAN, osp \in BOOLEAN :
             count(root, assertNoDups, osp)

Next == Count

(***************************************************************************)
(* Program trees the queries run on.  Each family fixes a few shapes and   *)
(* draws the kinds of some nodes and the intrinsic costs from small sets.  *)
(***************************************************************************)
Costs == 0..MaxCost

NoOps == <<<<>>, <<>>, <<>>, <<>>>>
Op1(a) == <<a, <<>>, <<>>, <<>>>>
Op2(a, b) == <<a, b, <<>>, <<>>>>
Op3(a, b, c) == <<a, b, c, <<>>>>

NoFunc(N) == [n \in 1..N |-> 0]
NoPred(N) == [n \in 1..N |-> "unknown"]
AllNode(N) == [n \in 1..N |-> "Node"]

MkTree(k, c, o, f, p, r) ==
    [kind |-> k, cost |-> c, ops |-> o, funcp |-> f, branchPred |-> p,
     roots |-> r]

InitRest ==
    /\ user1 = [n \in NodesOf(tree) |-> 0]
    /\ user2 = [n \in NodesOf(tree) |-> 0]
    /\ batch = {}
    /\ last = [NoCall EXCEPT !.user2 = [n \in NodesOf(tree) |-> 0]]
    /\ output = <<>>

\* Five generic nodes: a chain, one sibling list, one child per operand
\* slot, and two mixed shapes.  Node 5 is a leaf in each.
GenericShapes ==
    { <<Op1(<<2>>), Op1(<<3>>), Op1(<<4>>), Op1(<<5>>), NoOps>>,
      <<Op1(<<2, 3, 4, 5>>), NoOps, NoOps, NoOps, NoOps>>,
      <<<<<<2>>, <<3>>, <<4>>, <<5>>>>, NoOps, NoOps, NoOps, NoOps>>,
      <<Op3(<<2, 4>>, <<>>, <<5>>), Op2(<<>>, <<3>>), NoOps, NoOps, NoOps>>,
      <<Op1(<<2>>), Op2(<<3, 4>>, <<5>>), NoOps, NoOps, NoOps>> }

GenericTrees ==
    { MkTree(AllNode(5), c, o, NoFunc(5), NoPred(5), {1, 5}) :
        c \in [1..5 -> Costs], o \in GenericShapes }

InitGeneric == tree \in GenericTrees /\ InitRest

SpecGeneric == InitGeneric /\ [][Next]_vars

\* Conditionals.  A: block [pre, conditional(cond; then, then; else)].
\* B: block [pre, conditional without else, post].  C: the conditional is the
\* root and its branches are subtrees.  D: a conditional nested in the
\* then-branch of the root conditional.  `c` are the conditional nodes.
CondShapes ==
    { [ops |-> <<Op1(<<2, 3>>), NoOps, Op3(<<4>>, <<5, 6>>, <<7>>),
                 NoOps, NoOps, NoOps, NoOps>>, c |-> <<3>>],
      [ops |-> <<Op1(<<2, 3, 7>>), NoOps, Op3(<<4>>, <<5, 6>>, <<>>),
                 NoOps, NoOps, NoOps, NoOps>>, c |-> <<3>>],
      [ops |-> <<Op3(<<2>>, <<3>>, <<4>>), NoOps, Op1(<<7>>),
                 Op1(<<5, 6>>), NoOps, NoOps, NoOps>>, c |-> <<1>>],
      [ops |-> <<Op3(<<2>>, <<3>>, <<7>>), NoOps, Op3(<<4>>, <<5>>, <<6>>),
                 NoOps, NoOps, NoOps, NoOps>>, c |-> <<1, 3>>] }

\* A conditional statement with each hint, and a conditional expression.
CondVariants ==
    { <<"NodeIf", "unknown">>, <<"NodeIf", "likely">>,
      <<"NodeIf", "unlikely">>, <<"NodeCond", "unknown">> }

CondTrees ==
    { MkTree([n \in 1..7 |-> IF n = sh.c[1] THEN v[1]
                             ELSE IF n \in Range(sh.c) THEN w
                             ELSE "Node"],
             c, sh.ops, NoFunc(7),
             [n \in 1..7 |-> IF n = sh.c[1] THEN v[2] ELSE "unknown"],
             {1}) :
        c \in [1..7 -> Costs], sh \in CondShapes, v \in CondVariants,
        w \in {"NodeIf", "NodeCond"} }

InitCond == tree \in CondTrees /\ InitRest

SpecCond == InitCond /\ [][Next]_vars

\* Concatenations of four operands, nested to the right and to the left.
\* `inner` are the nodes with operands, outermost first.
ConcatShapes ==
    { [ops |-> <<Op2(<<2>>, <<3>>), NoOps, Op2(<<4>>, <<5>>), NoOps,
                 Op2(<<6>>, <<7>>), NoOps, NoOps>>, inner |-> <<1, 3, 5>>],
      [ops |-> <<Op2(<<2>>, <<3>>), Op2(<<4>>, <<5>>), NoOps,
                 Op2(<<6>>, <<7>>), NoOps, NoOps, NoOps>>,
       inner |-> <<1, 2, 4>>] }

\* The innermost node is a concatenation; the two around it are each a
\* concatenation or a generic binary node.
ConcatTrees ==
    { MkTree([n \in 1..7 |-> IF n = sh.inner[1] THEN k[1]
                             ELSE IF n = sh.inner[2] THEN k[2]
                             ELSE IF n = sh.inner[3] THEN "Concat"
                             ELSE "Node"],
             c, sh.ops, NoFunc(7), NoPred(7), {1}) :
        c \in [1..7 -> Costs], sh \in ConcatShapes,
        k \in {"Concat", "Node"} \X {"Concat", "Node"} }

InitConcat == tree \in ConcatTrees /\ InitRest

SpecConcat == InitConcat /\ [][Next]_vars

\* Selects.  A: a slice select (from; lsb; width) as root.  B: a statement
\* [select(from; index), trailing operand].  C: an indexed select as root
\* over a larger base.  `from` are the nodes of the base operand, its head
\* first.
SelShapes ==
    { [ops |-> <<Op3(<<2>>, <<4>>, <<6>>), Op1(<<3>>), NoOps, Op1(<<5>>),
                 NoOps, Op1(<<7>>), NoOps>>,
       sel |-> 1, kinds |-> {"Sel"}, from |-> <<2, 3>>],
      [ops |-> <<Op2(<<2>>, <<6>>), Op2(<<3>>, <<4>>), Op1(<<7>>),
                 Op1(<<5>>), NoOps, NoOps, NoOps>>,
       sel |-> 2, kinds |-> {"NodeSel", "Sel"}, from |-> <<3, 7>>],
      [ops |-> <<Op2(<<2>>, <<5>>), Op2(<<3>>, <<4>>), NoOps, NoOps,
                 Op1(<<6, 7>>), NoOps, NoOps>>,
       sel |-> 1, kinds |-> {"NodeSel"}, from |-> <<2, 3, 4>>] }

\* The head of the base operand: whatever it is, it is not visited.
FromKinds == {"Node", "Concat", "CAwait", "Active"}

\* The nodes of the base are free or very costly, the others cost 0..MaxCost.
SelCosts(from) ==
    { c \in [1..7 -> Costs \cup {BigCost}] :
        \A n \in 1..7 : IF n \in Range(from) THEN c[n] \in {0, BigCost}
                        ELSE c[n] \in Costs }

SelTrees ==
    UNION { { MkTree([n \in 1..7 |-> IF n = sh.sel THEN k
                                     ELSE IF n = sh.from[1] THEN fk
                                     ELSE "Node"],
                     c, sh.ops, NoFunc(7), NoPred(7), {1}) :
                k \in sh.kinds, fk \in FromKinds, c \in SelCosts(sh.from) } :
            sh \in SelShapes }

InitSel == tree \in SelTrees /\ InitRest

SpecSel == InitSel /\ [][Next]_vars

\* Suspension points.  A block [await, s1, s2]; the await has a chain of two
\* nodes below it (A) or an expression and a sensitivity operand (B); s1 is
\* a leaf, s2 has a child.
AwaitShapes ==
    { <<Op1(<<2, 5, 6>>), Op1(<<3>>), Op1(<<4>>), NoOps, NoOps, Op1(<<7>>),
        NoOps>>,
      <<Op1(<<2, 5, 6>>), Op2(<<3>>, <<4>>), NoOps, NoOps, NoOps,
        Op1(<<7>>), NoOps>> }

\* The kinds of the statement after the await: every visit overload that
\* returns at once when the remaining statements are ignored.
SkippedKinds ==
    {"Node", "NodeSel", "Sel", "Concat", "NodeIf", "NodeCond", "CAwait",
     "Fork"}

\* The await (2) and the child of s2 (7) cost 1; the other costs vary.
AwaitTrees ==
    { MkTree([n \in 1..7 |-> CASE n = 2 -> "CAwait"
                                [] n = 5 -> k1
                                [] n = 6 -> k2
                                [] OTHER -> "Node"],
             [n \in 1..7 |-> IF n \in {2, 7} THEN 1 ELSE c[n]],
             o, NoFunc(7), NoPred(7), {1}) :
        o \in AwaitShapes, k1 \in SkippedKinds, k2 \in {"Node", "Concat"},
        c \in [{1, 3, 4, 5, 6} -> Costs] }

InitAwait == tree \in AwaitTrees /\ InitRest

SpecAwait == InitAwait /\ [][Next]_vars

\* Forks.  Block 1 = [fork 2, T 8]; the fork runs A (3 = [4, await 5 [6], 9])
\* and B (7), in either order.  In the last shape the await itself is a
\* forked statement and B = 7 [3 [4, 9]].
ForkShapes ==
    { <<Op1(<<2, 8>>), Op2(<<>>, <<3, 7>>), Op1(<<4, 5, 9>>), NoOps,
        Op1(<<6>>), NoOps, NoOps, NoOps, NoOps>>,
      <<Op1(<<2, 8>>), Op2(<<>>, <<7, 3>>), Op1(<<4, 5, 9>>), NoOps,
        Op1(<<6>>), NoOps, NoOps, NoOps, NoOps>>,
      <<Op1(<<2, 8>>), Op2(<<>>, <<5, 7>>), Op1(<<4, 9>>), NoOps,
        Op1(<<6>>), NoOps, Op1(<<3>>), NoOps, NoOps>> }

\* The query is on the block or on the fork itself.  The block (1) and the
\* await (5) cost 1; the other costs vary.
ForkTrees ==
    { MkTree([n \in 1..9 |-> CASE n = 2 -> "Fork"
                                [] n = 5 -> "CAwait"
                                [] OTHER -> "Node"],
             [n \in 1..9 |-> IF n \in {1, 5} THEN 1 ELSE c[n]],
             o, NoFunc(9), NoPred(9), {r}) :
        o \in ForkShapes, r \in {1, 2},
        c \in [{2, 3, 4, 6, 7, 8, 9} -> Costs] }

InitFork == tree \in ForkTrees /\ InitRest

SpecFork == InitFork /\ [][Next]_vars

\* Calls.  Block 1 = [call 2 (argument 3), 6]; the call's target is the
\* function 4 = [5 [8], 7]; 5 is a generic statement or a suspension point;
\* 6 is a generic statement or a second call of 4 without arguments.  The
\* query is on the block or on the first call.
CallTrees ==
    { MkTree([n \in 1..8 |-> CASE n = 2 -> "NodeCCall"
                                [] n = 4 -> "CFunc"
                                [] n = 5 -> k5
                                [] n = 6 -> k6
                                [] OTHER -> "Node"],
             [n \in 1..8 |-> IF n = 1 THEN 1 ELSE c[n]],
             <<Op1(<<2, 6>>), Op1(<<3>>), NoOps, Op1(<<5, 7>>), Op1(<<8>>),
               NoOps, NoOps, NoOps>>,
             [n \in 1..8 |-> IF n = 2 \/ (n = 6 /\ k6 = "NodeCCall")
                             THEN 4 ELSE 0],
             NoPred(8), {1, 2}) :
        k5 \in {"Node", "CAwait"}, k6 \in {"Node", "NodeCCall"},
        c \in [2..8 -> Costs] }

InitCall == tree \in CallTrees /\ InitRest

SpecCall == InitCall /\ [][Next]_vars

\* A batch of queries on one tree.  Node 1 = [2, 6] is a block or a trigger
\* node; 2 has the operands 3, 4, 5 its kind takes (5 is detached where the
\* kind has two operands); 6 = [7] is a statement or a call; the function
\* 8 = [9] is the target of every call.  Every node costs 1.
BatchVariants ==
    { [kind |-> "Node", pred |-> "unknown", ops |-> Op1(<<3, 4, 5>>)],
      [kind |-> "NodeIf", pred |-> "unknown",
       ops |-> Op3(<<3>>, <<4>>, <<5>>)],
      [kind |-> "NodeIf", pred |-> "unlikely",
       ops |-> Op3(<<3>>, <<4>>, <<5>>)],
      [kind |-> "NodeCond", pred |-> "unknown",
       ops |-> Op3(<<3>>, <<4>>, <<5>>)],
      [kind |-> "NodeSel", pred |-> "unknown", ops |-> Op2(<<3>>, <<4>>)],
      [kind |-> "Sel", pred |-> "unknown", ops |-> Op3(<<3>>, <<4>>, <<5>>)],
      [kind |-> "Concat", pred |-> "unknown", ops |-> Op2(<<3>>, <<4>>)],
      [kind |-> "CAwait", pred |-> "unknown", ops |-> Op1(<<3, 4>>)],
      [kind |-> "Fork", pred |-> "unknown", ops |-> Op2(<<>>, <<3, 4, 5>>)],
      [kind |-> "NodeCCall", pred |-> "unknown",
       ops |-> Op2(<<>>, <<3, 4>>)] }

BatchTrees ==
    { MkTree([n \in 1..9 |-> CASE n = 1 -> k1
                                [] n = 2 -> v.kind
                                [] n = 6 -> k6
                                [] n = 8 -> "CFunc"
                                [] n = 9 -> k9
                                [] OTHER -> "Node"],
             [n \in 1..9 |-> 1],
             <<Op1(<<2, 6>>), v.ops, NoOps, NoOps, NoOps, Op1(<<7>>), NoOps,
               Op1(<<9>>), NoOps>>,
             [n \in 1..9 |-> IF (n = 2 /\ v.kind = "NodeCCall")
                                \/ (n = 6 /\ k6 = "NodeCCall")
                             THEN 8 ELSE 0],
             [n \in 1..9 |-> IF n = 2 THEN v.pred ELSE "unknown"],
             {1, 2, 3, 4, 6, 8}) :
        k1 \in {"Node", "Active"}, v \in BatchVariants,
        k6 \in {"Node", "NodeCCall"}, k9 \in {"Node", "CAwait"} }

Init == tree \in BatchTrees /\ InitRest

Spec == Init /\ [][Next]_vars

\* Trigger nodes below the root.  Block 1 = [2 [3], 5, 6]; 2 is a block or a
\* suspension point; 5 is a statement or a call of the function 7 = [9];
\* 6 has the operands 4 and 8.  One of the nodes 3, 4, 5, 8, 9 is a trigger
\* node.  Every node costs 1.
ActiveKinds6 ==
    {"Node", "NodeIf", "NodeCond", "Concat", "Fork", "NodeSel", "Sel"}

ActiveTrees ==
    { MkTree([n \in 1..9 |-> CASE n = a -> "Active"
                                [] n = 2 -> k2
                                [] n = 5 -> k5
                                [] n = 6 -> k6
                                [] n = 7 -> "CFunc"
                                [] OTHER -> "Node"],
             [n \in 1..9 |-> 1],
             <<Op1(<<2, 5, 6>>), Op1(<<3>>), NoOps, NoOps, NoOps,
               Op2(<<4>>, <<8>>), Op1(<<9>>), NoOps, NoOps>>,
             [n \in 1..9 |-> IF n = 5 /\ a # 5 /\ k5 = "NodeCCall"
                             THEN 7 ELSE 0],
             NoPred(9), {1, 5, 6}) :
        a \in {3, 4, 5, 8, 9}, k2 \in {"Node", "CAwait"},
        k5 \in {"Node", "NodeCCall"}, k6 \in ActiveKinds6 }

InitActive == tree \in ActiveTrees /\ InitRest

SpecActive == InitActive /\ [][Next]_vars

\* Call graphs.  Block 1 = [call 2 of f]; f = 4 = [5, 6]; g = 7 = [8]; 5 is
\* a statement, a suspension point, a call of f itself or a call of g; 8 is
\* a statement or a call back to f; 6 is a statement or a call of f.  The
\* query is on the block, on the call or on f.  Every node costs 1.
RecTrees ==
    { MkTree([n \in 1..8 |-> CASE n = 2 -> "NodeCCall"
                                [] n \in {4, 7} -> "CFunc"
                                [] n = 5 -> k5[1]
                                [] n = 6 -> k6
                                [] n = 8 -> k8
                                [] OTHER -> "Node"],
             [n \in 1..8 |-> 1],
             <<Op1(<<2>>), Op1(<<3>>), NoOps, Op1(<<5, 6>>), NoOps, NoOps,
               Op1(<<8>>), NoOps>>,
             [n \in 1..8 |-> CASE n = 2 -> 4
                                [] n = 5 -> k5[2]
                                [] n = 6 /\ k6 = "NodeCCall" -> 4
                                [] n = 8 /\ k8 = "NodeCCall" -> 4
                                [] OTHER -> 0],
             NoPred(8), {1, 2, 4}) :
        k5 \in {<<"Node", 0>>, <<"CAwait", 0>>, <<"NodeCCall", 4>>,
                <<"NodeCCall", 7>>},
        k6 \in {"Node", "NodeCCall"}, k8 \in {"Node", "NodeCCall"} }

InitRec == tree \in RecTrees /\ InitRest

SpecRec == InitRec /\ [][Next]_vars

\* A suspension point in a nested block.  Outer block 1 = [p 2, inner 3];
\* inner block 3 = [q 4, await 5 [7], s 6].  The query is on the outer or on
\* the inner block.
NestedTrees ==
    { MkTree([n \in 1..7 |-> IF n = 5 THEN "CAwait" ELSE "Node"],
             c,
             <<Op1(<<2, 3>>), NoOps, Op1(<<4, 5, 6>>), NoOps, Op1(<<7>>),
               NoOps, NoOps>>,
             NoFunc(7), NoPred(7), {1, 3}) :
        c \in [1..7 -> Costs] }

InitNested == tree \in NestedTrees /\ InitRest

SpecNested == InitNested /\ [][Next]_vars

\* Call arguments.  Block 1 = [call 2 (argument 3 [6]) of f, 4]; f = 5 = [7].
\* The argument and the node below it are generic nodes or suspension
\* points.  The query is on the block, on the call or on f.
ArgTrees ==
    { MkTree([n \in 1..7 |-> CASE n = 2 -> "NodeCCall"
                                [] n = 3 -> k3
                                [] n = 5 -> "CFunc"
                                [] n = 6 -> k6
                                [] OTHER -> "Node"],
             [n \in 1..7 |-> IF n \in {2, 3, 6, 7} THEN c[n] ELSE 1],
             <<Op1(<<2, 4>>), Op1(<<3>>), Op1(<<6>>), NoOps, Op1(<<7>>),
               NoOps, NoOps>>,
             [n \in 1..7 |-> IF n = 2 THEN 5 ELSE 0],
             NoPred(7), {1, 2, 5}) :
        k3 \in {"Node", "CAwait"}, k6 \in {"Node", "CAwait"},
        c \in [{2, 3, 6, 7} -> Costs] }

InitArg == tree \in ArgTrees /\ InitRest

SpecArg == InitArg /\ [][Next]_vars

\* Callee bodies out of place.  Block 1 = [2 [8], 3, 4]; 2 is a block or a
\* suspension point; 3 is a statement, a call of f or a callee body put
\* there as a child; f = 5 = [6 [7]], where 6 is a statement or a callee
\* body nested as a child.  The query is on the block, on 3 or on f.
NestTrees ==
    { MkTree([n \in 1..8 |-> CASE n = 2 -> k2
                                [] n = 3 -> k3
                                [] n = 5 -> "CFunc"
                                [] n = 6 -> k6
                                [] OTHER -> "Node"],
             [n \in 1..8 |-> IF n \in {3, 6, 7} THEN c[n] ELSE 1],
             <<Op1(<<2, 3, 4>>), Op1(<<8>>), NoOps, NoOps, Op1(<<6>>),
               Op1(<<7>>), NoOps, NoOps>>,
             [n \in 1..8 |-> IF n = 3 /\ k3 = "NodeCCall" THEN 5 ELSE 0],
             NoPred(8), {1, 3, 5}) :
        k2 \in {"Node", "CAwait"}, k3 \in {"Node", "NodeCCall", "CFunc"},
        k6 \in {"Node", "CFunc"}, c \in [{3, 6, 7} -> Costs] }

InitNest == tree \in NestTrees /\ InitRest

SpecNest == InitNest /\ [][Next]_vars

\* The reach of a suspension point.  Block 1 = [e 2, T 8 [9]].  e is a
\* block, a conditional, a fork or a call: a block [3, 4, 5], a conditional
\* (3; 4; 5), a fork of 3, 4, 5, or a call (argument 3) of f = 7 = [4, 5].
\* Node 4 or node 5 is a suspension point over node 6.
ScopeVariants ==
    { [kind |-> "Node", ops2 |-> Op1(<<3, 4, 5>>), ops7 |-> NoOps],
      [kind |-> "NodeIf", ops2 |-> Op3(<<3>>, <<4>>, <<5>>), ops7 |-> NoOps],
      [kind |-> "NodeCond", ops2 |-> Op3(<<3>>, <<4>>, <<5>>),
       ops7 |-> NoOps],
      [kind |-> "Fork", ops2 |-> Op2(<<>>, <<3, 4, 5>>), ops7 |-> NoOps],
      [kind |-> "NodeCCall", ops2 |-> Op1(<<3>>),
       ops7 |-> Op1(<<4, 5>>)] }

ScopeTrees ==
    { MkTree([n \in 1..9 |-> CASE n = 2 -> v.kind
                                [] n = a -> "CAwait"
                                [] n = 7 -> "CFunc"
                                [] OTHER -> "Node"],
             [n \in 1..9 |-> IF n \in {2, 5, 6, 8, 9} THEN c[n] ELSE 1],
             [n \in 1..9 |-> CASE n = 1 -> Op1(<<2, 8>>)
                                [] n = 2 -> v.ops2
                                [] n = a -> Op1(<<6>>)
                                [] n = 7 -> v.ops7
                                [] n = 8 -> Op1(<<9>>)
                                [] OTHER -> NoOps],
             [n \in 1..9 |-> IF n = 2 /\ v.kind = "NodeCCall" THEN 7 ELSE 0],
             NoPred(9), {1, 2}) :
        v \in ScopeVariants, a \in {4, 5}, c \in [{2, 5, 6, 8, 9} -> Costs] }

InitScope == tree \in ScopeTrees /\ InitRest

SpecScope == InitScope /\ [][Next]_vars

(***************************************************************************)
(* Properties.                                                             *)
(***************************************************************************)
RECURSIVE SumCost(_, _)
\* The sum of the intrinsic costs of the nodes in S.
SumCost(t, S) ==
    IF S = {} THEN 0
    ELSE LET n == CHOOSE x \in S : TRUE
         IN  t.cost[n] + SumCost(t, S \ {n})

OnlyKinds(t, S, K) == \A n \in S : t.kind[n] \in K

\* The latest query returned a cost.
Returned == last.root # 0 /\ last.err = "none"

LastSubtree == SubtreeOf(tree, last.root)

\* C1: base rule.  A query over a subtree made only of generic nodes returns
\* the sum of the intrinsic costs of every node of the subtree (a childless
\* node returns its own cost; a parent adds the costs of its sibling lists).
C1_BaseRule ==
    (Returned /\ OnlyKinds(tree, LastSubtree, {"Node"}))
        => last.cost = SumCost(tree, LastSubtree)

\* A query over a five-node generic tree with a sibling list of at least two
\* nodes returned the sum of all five costs, not all of them zero.
C1_Witness ==
    /\ Returned /\ last.root = 1
    /\ OnlyKinds(tree, LastSubtree, {"Node"})
    /\ Len(op1p(tree, 1)) >= 2
    /\ Cardinality(LastSubtree) = 5
    /\ last.cost = SumCost(tree, LastSubtree)
    /\ last.cost >= 3

Max(a, b) == IF a >= b THEN a ELSE b

IsCond(t, n) == t.kind[n] \in {"NodeIf", "NodeCond"}

\* The hint that applies to a conditional: only the statement form has one.
HintOf(t, n) == IF t.kind[n] = "NodeIf" THEN t.branchPred[n] ELSE "unknown"

RECURSIVE CondRuleCost(_, _)
RECURSIVE CondRuleList(_, _)
\* The cost the conditional rule assigns to a subtree of generic nodes and
\* conditionals: a conditional is its own cost, its condition and the larger
\* branch (the branch a hint does not exclude).
CondRuleCost(t, n) ==
    IF IsCond(t, n)
    THEN LET cc == CondRuleList(t, condp(t, n))
             ct == CondRuleList(t, thensp(t, n))
             ce == CondRuleList(t, elsesp(t, n))
         IN  t.cost[n] + cc
             + (CASE HintOf(t, n) = "unlikely" -> ce
                  [] HintOf(t, n) = "likely" -> ct
                  [] OTHER -> Max(ct, ce))
    ELSE t.cost[n] + CondRuleList(t, ChildSeq(t, n))

CondRuleList(t, list) ==
    IF list = <<>> THEN 0
    ELSE CondRuleCost(t, Head(list)) + CondRuleList(t, Tail(list))

CondSubtree == OnlyKinds(tree, LastSubtree, {"Node", "NodeIf", "NodeCond"})

Hinted(S) == {n \in S : IsCond(tree, n) /\ HintOf(tree, n) # "unknown"}

\* C2: a conditional without a hint costs its own intrinsic cost plus the
\* condition plus the larger of the two branches, each branch counted from
\* zero, whatever was accumulated before it or in the other branch.
C2_CondMax ==
    (Returned /\ CondSubtree /\ Hinted(LastSubtree) = {}
              /\ \E n \in LastSubtree : IsCond(tree, n))
        => last.cost = CondRuleCost(tree, last.root)

\* A block with a costly statement before an unhinted conditional whose
\* then-branch is larger than its non-empty else-branch.
C2_Witness ==
    /\ Returned /\ CondSubtree /\ tree.kind[last.root] = "Node"
    /\ \E n \in LastSubtree :
          /\ IsCond(tree, n) /\ HintOf(tree, n) = "unknown"
          /\ SumCost(tree, Range(thensp(tree, n)))
                > SumCost(tree, Range(elsesp(tree, n)))
          /\ SumCost(tree, Range(elsesp(tree, n))) > 0
          /\ SumCost(tree, Range(condp(tree, n))) > 0
          /\ \E p \in DOMAIN op1p(tree, last.root) :
                /\ op1p(tree, last.root)[p] = n /\ p > 1
                /\ tree.cost[op1p(tree, last.root)[1]] > 0
    /\ last.cost = CondRuleCost(tree, last.root)

\* C3: on a conditional statement an "unlikely" hint makes the then-branch
\* count 0 (cost = own + condition + else) and a "likely" hint makes the
\* else-branch count 0 (cost = own + condition + then).
C3_Hints ==
    (Returned /\ CondSubtree /\ Hinted(LastSubtree) # {})
        => last.cost = CondRuleCost(tree, last.root)

\* An "unlikely" conditional whose then-branch is larger than its else-branch
\* was costed with the else-branch.
C3_Witness ==
    /\ Returned /\ CondSubtree
    /\ \E n \in LastSubtree :
          /\ tree.kind[n] = "NodeIf" /\ tree.branchPred[n] = "unlikely"
          /\ SumCost(tree, Range(thensp(tree, n)))
                > SumCost(tree, Range(elsesp(tree, n)))
          /\ SumCost(tree, Range(elsesp(tree, n))) > 0
    /\ last.cost = CondRuleCost(tree, last.root)

\* C4: a concatenation adds the costs of its operands and nothing of its own:
\* over generic nodes and concatenations the cost is the sum of the intrinsic
\* costs of the nodes that are not concatenations, so a chain
\* concat(a, concat(b, concat(c, d))) costs the sum of its leaf operands.
C4_ConcatFree ==
    (Returned /\ OnlyKinds(tree, LastSubtree, {"Node", "Concat"})
              /\ \E n \in LastSubtree : tree.kind[n] = "Concat")
        => last.cost = SumCost(tree, {n \in LastSubtree :
                                       tree.kind[n] # "Concat"})

\* A right-nested chain of three concatenations, each with a non-zero
\* intrinsic cost, over four operands that cost at least 3 together.
C4_Witness ==
    /\ Returned /\ last.root = 1
    /\ \A n \in {1, 3, 5} : tree.kind[n] = "Concat" /\ tree.cost[n] > 0
    /\ op2p(tree, 1) = <<3>> /\ op2p(tree, 3) = <<5>>
    /\ last.cost = SumCost(tree, {2, 4, 6, 7})
    /\ last.cost >= 3

IsSelect(t, n) == t.kind[n] \in {"NodeSel", "Sel"}

RECURSIVE SelCounted(_, _)
\* The nodes the select rule counts below n: a select counts itself and its
\* index (offset) operand, any other node itself and all its children.
SelCounted(t, n) ==
    {n} \cup UNION {SelCounted(t, c) :
                      c \in Range(IF IsSelect(t, n) THEN op2p(t, n)
                                  ELSE ChildSeq(t, n))}

\* C5: an indexed select and a slice select cost their own intrinsic cost
\* plus the index (offset) subexpression; the base operand adds nothing,
\* whatever its size and kind.
C5_SelectNoBase ==
    (Returned /\ OnlyKinds(tree, SelCounted(tree, last.root),
                           {"Node", "NodeSel", "Sel"})
              /\ \E n \in SelCounted(tree, last.root) : IsSelect(tree, n))
        => last.cost = SumCost(tree, SelCounted(tree, last.root))

\* A select at the root over a base of cost at least BigCost and an index
\* subexpression of non-zero cost returned own + index, below BigCost.
C5_Witness ==
    /\ Returned /\ IsSelect(tree, last.root)
    /\ SumCost(tree, UNION {SubtreeOf(tree, c) :
                              c \in Range(fromp(tree, last.root))}) >= BigCost
    /\ SumCost(tree, UNION {SubtreeOf(tree, c) :
                              c \in Range(bitp(tree, last.root))}) > 0
    /\ last.cost = tree.cost[last.root]
                   + SumCost(tree, UNION {SubtreeOf(tree, c) :
                                            c \in Range(bitp(tree, last.root))})
    /\ last.cost < BigCost

\* The nodes strictly below n.
Below(t, n) == SubtreeOf(t, n) \ {n}

\* n is a suspension point over generic nodes only.
PlainAwait(t, n) ==
    t.kind[n] = "CAwait" /\ OnlyKinds(t, Below(t, n), {"Node"})

\* C6: in a block [suspension point, s1, s2] the estimate of the block is
\* the block's own cost plus the cost of the suspension point's children;
\* s1 and s2 and the suspension node's own intrinsic cost add nothing.
C6_AwaitCutsBlock ==
    (/\ Returned /\ tree.kind[last.root] = "Node"
     /\ Len(ChildSeq(tree, last.root)) >= 3
     /\ PlainAwait(tree, Head(ChildSeq(tree, last.root))))
        => last.cost = tree.cost[last.root]
                       + SumCost(tree, Below(tree,
                                             Head(ChildSeq(tree, last.root))))

\* A block [await, s1, s2] where the await, its children, s1 and s2 all have
\* non-zero costs returned the block's cost plus the await's children.
C6_Witness ==
    /\ Returned /\ tree.kind[1] = "Node" /\ last.root = 1
    /\ ChildSeq(tree, 1) = <<2, 5, 6>> /\ PlainAwait(tree, 2)
    /\ tree.cost[2] > 0 /\ tree.cost[5] > 0 /\ tree.cost[6] > 0
    /\ SumCost(tree, Below(tree, 2)) = 2
    /\ last.cost = tree.cost[1] + 2

RECURSIVE SumSubtrees(_, _)
\* The sum of the intrinsic costs of the subtrees of a sibling list.
SumSubtrees(t, list) ==
    IF list = <<>> THEN 0
    ELSE SumCost(t, SubtreeOf(t, Head(list))) + SumSubtrees(t, Tail(list))

\* The statements of a list up to its first suspension point (all of them
\* when it has none).
RECURSIVE UpToAwait(_, _)
UpToAwait(t, list) ==
    IF list = <<>> THEN <<>>
    ELSE IF t.kind[Head(list)] = "CAwait" THEN <<>>
    ELSE <<Head(list)>> \o UpToAwait(t, Tail(list))

FirstAwait(t, list) == list[Len(UpToAwait(t, list)) + 1]

HasAwait(t, list) == Len(UpToAwait(t, list)) < Len(list)

\* A forked statement of the simple form: a suspension point over generic
\* nodes, or a generic block whose statements are generic subtrees up to a
\* suspension point over generic nodes, if any.
SimpleBranch(t, b) ==
    \/ PlainAwait(t, b)
    \/ /\ t.kind[b] = "Node"
       /\ \A i \in DOMAIN UpToAwait(t, ChildSeq(t, b)) :
             OnlyKinds(t, SubtreeOf(t, ChildSeq(t, b)[i]), {"Node"})
       /\ HasAwait(t, ChildSeq(t, b))
             => PlainAwait(t, FirstAwait(t, ChildSeq(t, b)))

\* The cost of a simple branch from a zero baseline: up to and including the
\* children of its suspension point.
BranchCost(t, b) ==
    IF t.kind[b] = "CAwait" THEN SumCost(t, Below(t, b))
    ELSE t.cost[b] + SumSubtrees(t, UpToAwait(t, ChildSeq(t, b)))
         + (IF HasAwait(t, ChildSeq(t, b))
            THEN SumCost(t, Below(t, FirstAwait(t, ChildSeq(t, b))))
            ELSE 0)

RECURSIVE SumBranches(_, _)
SumBranches(t, list) ==
    IF list = <<>> THEN 0
    ELSE BranchCost(t, Head(list)) + SumBranches(t, Tail(list))

SimpleFork(t, f) ==
    /\ t.kind[f] = "Fork"
    /\ \A i \in DOMAIN stmtsp(t, f) : SimpleBranch(t, stmtsp(t, f)[i])

ForkCost(t, f) == t.cost[f] + SumBranches(t, stmtsp(t, f))

\* C7: a fork costs its own cost plus the sum of its branches, each counted
\* from zero up to and including its suspension point; the flag that ignores
\* the remaining statements is false when the fork visit ends, so in a block
\* [fork, T] the statement T is added: own + fork + a + b + t.
C7_ForkBranches ==
    /\ (Returned /\ SimpleFork(tree, last.root))
          => /\ last.cost = ForkCost(tree, last.root)
             /\ ~last.ignoreRemaining
    /\ (/\ Returned /\ tree.kind[last.root] = "Node"
        /\ Len(ChildSeq(tree, last.root)) = 2
        /\ SimpleFork(tree, ChildSeq(tree, last.root)[1])
        /\ OnlyKinds(tree, SubtreeOf(tree, ChildSeq(tree, last.root)[2]),
                     {"Node"}))
          => last.cost = tree.cost[last.root]
                         + ForkCost(tree, ChildSeq(tree, last.root)[1])
                         + SumCost(tree, SubtreeOf(tree,
                                            ChildSeq(tree, last.root)[2]))

\* A block [fork [B, A], T]: A = [4, await [6], 9] comes last and ends in
\* a suspension point, every cost is non-zero, and the query returned
\* 1 + fork + (A + 4 + 6) + B + T.
C7_Witness ==
    /\ Returned /\ last.root = 1
    /\ stmtsp(tree, 2) = <<7, 3>> /\ ChildSeq(tree, 3) = <<4, 5, 9>>
    /\ \A n \in 1..9 : tree.cost[n] = 1
    /\ last.cost = 7

\* The value a query on node n returns on a tree without claim markers.
Estimate(t, n) ==
    InstrCountVisitor(t, [m \in NodesOf(t) |-> 0],
                      [startNode |-> n, assertNoDups |-> FALSE,
                       osp |-> FALSE]).instrCount

\* What a call site is charged: the call's own cost, its arguments and the
\* estimate of its target taken as query root.
CallSiteCost(t, c) ==
    t.cost[c] + SumSubtrees(t, ChildSeq(t, c)) + Estimate(t, t.funcp[c])

\* The arguments of the call c are generic nodes.
PlainCall(t, c) ==
    /\ t.kind[c] = "NodeCCall"
    /\ OnlyKinds(t, Below(t, c), {"Node"})

RECURSIVE SumStatements(_, _)
\* A list of calls and generic statements: the calls at their call-site
\* cost, the others at the sum of their subtree.
SumStatements(t, list) ==
    IF list = <<>> THEN 0
    ELSE (IF t.kind[Head(list)] = "NodeCCall"
          THEN CallSiteCost(t, Head(list))
          ELSE SumCost(t, SubtreeOf(t, Head(list))))
         + SumStatements(t, Tail(list))

PlainStatements(t, list) ==
    \A i \in DOMAIN list :
        \/ PlainCall(t, list[i])
        \/ OnlyKinds(t, SubtreeOf(t, list[i]), {"Node"})

\* C8: a call site costs the call's intrinsic cost plus its arguments plus
\* the estimate of the callee body taken as query root, for every callee
\* body (also one with a suspension point), and every call site of the same
\* callee in a block is charged that amount.
C8_CallSiteFullCost ==
    /\ (Returned /\ PlainCall(tree, last.root))
          => last.cost = CallSiteCost(tree, last.root)
    /\ (/\ Returned /\ tree.kind[last.root] = "Node"
        /\ PlainStatements(tree, ChildSeq(tree, last.root)))
          => last.cost = tree.cost[last.root]
                         + SumStatements(tree, ChildSeq(tree, last.root))

\* The root subtrees of two queries share a node.
Overlap(t, r1, r2) == SubtreeOf(t, r1) \cap SubtreeOf(t, r2) # {}

\* How a query with the latest call's arguments ends on a tree without
\* claim markers.
FreshErr ==
    InstrCountVisitor(tree, [m \in NodesOf(tree) |-> 0],
                      [startNode |-> last.root,
                       assertNoDups |-> last.assertNoDups,
                       osp |-> last.osp]).err

\* The latest call is duplicate-checked, and its root subtree and those of
\* the earlier checked queries are pairwise disjoint.
DisjointBatch ==
    /\ last.root # 0 /\ last.assertNoDups
    /\ \A r1 \in last.before \cup {last.root} :
          \A r2 \in last.before \cup {last.root} :
             r1 # r2 => ~Overlap(tree, r1, r2)
    /\ last.root \notin last.before

\* C9: from clear markers, duplicate-checked queries whose root subtrees are
\* pairwise disjoint, in any order, never raise the double-claim violation:
\* each ends as it would on a tree without markers.
C9_DisjointSucceed ==
    DisjointBatch => (last.err # "dup" /\ last.err = FreshErr)

\* After a query on the function itself, two queries from disjoint call
\* sites that both trace into that function returned, each call site
\* claimed by its own query.
C9_Witness ==
    /\ DisjointBatch /\ Returned
    /\ last.root = 6 /\ last.before = {2, 8}
    /\ tree.kind[2] = "NodeCCall" /\ tree.kind[6] = "NodeCCall"
    /\ tree.funcp[2] = tree.funcp[6]
    /\ user1[2] = 2 /\ user1[6] = 6

\* C10 as stated: a duplicate-checked call whose root subtree shares a node
\* with that of an earlier duplicate-checked call ends in the double-claim
\* violation, whatever the kinds of the nodes.
C10_OverlapAlwaysDup ==
    (/\ last.root # 0 /\ last.assertNoDups
     /\ \E r \in last.before : Overlap(tree, r, last.root))
        => last.err = "dup"

PlainKinds == {"Node", "NodeIf", "NodeCond"}

\* C10 as amended: a duplicate-checked call whose root subtree shares a node
\* with that of an earlier duplicate-checked call ends in the double-claim
\* violation when both subtrees consist of generic nodes and conditionals.
C10_OverlapDupPlain ==
    (/\ last.root # 0 /\ last.assertNoDups
     /\ \E r \in last.before :
           /\ Overlap(tree, r, last.root)
           /\ OnlyKinds(tree, SubtreeOf(tree, r) \cup LastSubtree,
                        PlainKinds))
        => last.err = "dup"

\* After a query on the then-branch of a conditional, the query on the
\* enclosing block failed at that node with the double-claim violation.
C10_Witness ==
    /\ last.assertNoDups /\ last.root = 1 /\ 4 \in last.before
    /\ tree.kind[1] = "Node" /\ tree.kind[2] = "NodeIf"
    /\ OnlyKinds(tree, LastSubtree, PlainKinds)
    /\ last.err = "dup" /\ last.errNode = 4

\* C11: the duplicate check is per call.  A call with duplicate-checking
\* disabled never raises the double-claim violation, whatever markers
\* earlier checked calls left, and it returns the value it returns on a
\* tree without markers.
C11_UncheckedIgnoresMarkers ==
    (last.root # 0 /\ ~last.assertNoDups)
        => /\ last.err # "dup"
           /\ last.err = FreshErr
           /\ last.cost = Estimate(tree, last.root)

\* An unchecked query on the block 1 returned its cost although earlier
\* checked queries had claimed nodes 2 and 6 of its subtree.
C11_Witness ==
    /\ Returned /\ ~last.assertNoDups /\ last.root = 1
    /\ tree.kind[1] = "Node" /\ {2, 6} \subseteq last.before
    /\ user1[2] = 2 /\ user1[6] = 6
    /\ last.cost = Estimate(tree, 1) /\ last.cost > 1

\* The latest query ran on markers no earlier query had set.
OnClearMarkers == ~last.assertNoDups \/ last.before = {}

\* The latest query ended in the fatal error of visit(AstActive*) at node a
\* and returned nothing.
AbortedAtActive(a) ==
    /\ last.err = "active" /\ last.errNode = a
    /\ last.cost = 0 /\ output = <<>>

\* Statement i of the list is a trigger node and the statements before it
\* are generic subtrees or suspension points over generic nodes.
ActiveAt(t, list, i) ==
    /\ i \in DOMAIN list /\ t.kind[list[i]] = "Active"
    /\ \A j \in 1..(i - 1) :
          \/ OnlyKinds(t, SubtreeOf(t, list[j]), {"Node"})
          \/ PlainAwait(t, list[j])

\* C12: a trigger node that a query reaches and that is not the query root
\* aborts the query with a fatal error and no cost is returned: whenever
\* visit(AstActive*) stamped such a node; when it is a statement of the
\* root block, also after a suspension point; and when it is a statement
\* of the callee body of the root call.
C12_ActiveBelowRootFatal ==
    /\ \A a \in NodesOf(tree) :
          (/\ last.root # 0 /\ a # last.root
           /\ tree.kind[a] = "Active" /\ last.user2[a] # 0)
              => AbortedAtActive(a)
    /\ \A i \in 1..Cardinality(NodesOf(tree)) :
          (/\ last.root # 0 /\ OnClearMarkers
           /\ tree.kind[last.root] = "Node"
           /\ ActiveAt(tree, ChildSeq(tree, last.root), i))
              => AbortedAtActive(ChildSeq(tree, last.root)[i])
    /\ \A i \in 1..Cardinality(NodesOf(tree)) :
          (/\ last.root # 0 /\ OnClearMarkers
           /\ PlainCall(tree, last.root)
           /\ ActiveAt(tree, ChildSeq(tree, tree.funcp[last.root]), i))
              => AbortedAtActive(ChildSeq(tree, tree.funcp[last.root])[i])

\* The query on the block [suspension point, trigger node, ...] was aborted
\* at the trigger node that follows the suspension point.
C12_Witness ==
    /\ last.root = 1 /\ ChildSeq(tree, 1) = <<2, 5, 6>>
    /\ PlainAwait(tree, 2) /\ tree.kind[5] = "Active"
    /\ AbortedAtActive(5)

\* The counts visit(AstNodeIf*) / visit(AstNodeCond*) compare, for branches
\* of generic nodes and conditionals.
IfCount(t, n) ==
    IF HintOf(t, n) = "unlikely" THEN 0 ELSE CondRuleList(t, thensp(t, n))

ElseCount(t, n) ==
    IF HintOf(t, n) = "likely" THEN 0 ELSE CondRuleList(t, elsesp(t, n))

\* The branch that is not counted.
LosingList(t, n) ==
    IF IfCount(t, n) >= ElseCount(t, n) THEN elsesp(t, n) ELSE thensp(t, n)

\* Every node at or below a statement of the list.
ListNodes(t, list) == UNION {SubtreeOf(t, list[i]) : i \in DOMAIN list}

\* The nodes the latest query printed a line for.
Printed == {output[i].node : i \in DOMAIN output}

\* C13: with a sink, no node of the losing branch of a conditional is
\* printed, however many statements the losing branch has and whatever is
\* nested below them (stated for conditionals whose branch counts differ).
C13_LosingBranchHidden ==
    (Returned /\ last.osp /\ CondSubtree)
        => \A n \in LastSubtree :
              (IsCond(tree, n) /\ IfCount(tree, n) # ElseCount(tree, n))
                 => Printed \cap ListNodes(tree, LosingList(tree, n)) = {}

\* C14: with a sink, every node the query visits ends with a non-zero stamp,
\* the cost accumulated through the node plus 1.  Stated for a block whose
\* first statement is a suspension point over generic nodes: the block, the
\* suspension point and the nodes below it are the nodes visited.
C14_VisitedStamped ==
    (/\ Returned /\ last.osp /\ tree.kind[last.root] = "Node"
     /\ ChildSeq(tree, last.root) # <<>>
     /\ PlainAwait(tree, Head(ChildSeq(tree, last.root))))
        => /\ last.user2[last.root] = last.cost + 1
           /\ last.user2[Head(ChildSeq(tree, last.root))] # 0
           /\ \A n \in Below(tree, Head(ChildSeq(tree, last.root))) :
                 last.user2[n] = SumCost(tree, SubtreeOf(tree, n)) + 1

RECURSIVE Preorder(_, _)
RECURSIVE PreorderList(_, _)
\* The nodes of a subtree in pre-order: a node, then its children in order.
Preorder(t, n) == <<n>> \o PreorderList(t, ChildSeq(t, n))

PreorderList(t, list) ==
    IF list = <<>> THEN <<>>
    ELSE Preorder(t, Head(list)) \o PreorderList(t, Tail(list))

\* The nodes on the path from the query root r down to n, both included.
PathTo(t, r, n) == {a \in SubtreeOf(t, r) : n \in SubtreeOf(t, a)}

\* The lines the printer owes for the latest query: one for each node that
\* is stamped together with everything above it up to the root, in pre-order,
\* with the stamp less one as cost and one colon per level (the root is at
\* level 1).
ExpectedLines ==
    LET Shown(n) == \A a \in PathTo(tree, last.root, n) : last.user2[a] # 0
        nodes == SelectSeq(Preorder(tree, last.root), Shown)
    IN  [i \in 1..Len(nodes) |->
            [indent |-> Cardinality(PathTo(tree, last.root, nodes[i])),
             cost |-> last.user2[nodes[i]] - 1,
             node |-> nodes[i]]]

\* C15: the printer emits exactly one line, in pre-order, for each node that
\* is stamped and whose ancestors up to the query root are all stamped,
\* showing stamp - 1 and one colon per depth level; a node with stamp 0 and
\* everything below it is not printed, even below it stamped nodes.
C15_PrinterLines ==
    (Returned /\ last.osp) => output = ExpectedLines

\* A query printed lines down to level 3 and left out a stamped node below
\* a node whose stamp is 0.
C15_Witness ==
    /\ Returned /\ last.osp /\ output = ExpectedLines
    /\ \E i \in DOMAIN output : output[i].indent = 3 /\ output[i].cost > 0
    /\ \E n \in LastSubtree :
          /\ last.user2[n] = 0
          /\ \E d \in Below(tree, n) : last.user2[d] # 0 /\ d \notin Printed

\* C16: every query terminates, with a cost or with a fatal invariant
\* violation, also when callee bodies call themselves directly or through
\* other callees: the traversal never nests callee bodies without end (which
\* the model records as exhausting the call stack).
C16_Terminates == last.err # "stackOverflow"

\* C17: a suspension point removes only the statements that follow it.  For
\* an outer block [p, inner] whose inner block holds a suspension point, the
\* estimate keeps the outer block's own cost, the statement p before the
\* inner block, and the inner block up to and including the children of its
\* suspension point.
C17_KeepsCostBeforeAwait ==
    (/\ Returned /\ tree.kind[last.root] = "Node"
     /\ Len(ChildSeq(tree, last.root)) = 2
     /\ OnlyKinds(tree, SubtreeOf(tree, ChildSeq(tree, last.root)[1]),
                  {"Node"})
     /\ tree.kind[ChildSeq(tree, last.root)[2]] = "Node"
     /\ SimpleBranch(tree, ChildSeq(tree, last.root)[2])
     /\ HasAwait(tree, ChildSeq(tree, ChildSeq(tree, last.root)[2])))
        => last.cost = tree.cost[last.root]
                       + SumCost(tree, SubtreeOf(tree,
                                          ChildSeq(tree, last.root)[1]))
                       + BranchCost(tree, ChildSeq(tree, last.root)[2])

\* C18: a slice select costs its own intrinsic cost plus its offset operand
\* plus its width operand; only the sliced source operand is excluded.
C18_SliceCountsWidth ==
    (/\ Returned /\ tree.kind[last.root] = "Sel"
     /\ OnlyKinds(tree, ListNodes(tree, lsbp(tree, last.root))
                        \cup ListNodes(tree, widthp(tree, last.root)),
                  {"Node"}))
        => last.cost = tree.cost[last.root]
                       + SumSubtrees(tree, lsbp(tree, last.root))
                       + SumSubtrees(tree, widthp(tree, last.root))

\* A trigger node and the statements directly beneath it.
ActiveAndStatements(t, a) == {a} \cup Range(ChildSeq(t, a))

\* C19: a query on a trigger node short-circuits: it returns 0, claims no
\* node and visits nothing below the root (with a sink only the root is
\* stamped and printed); so duplicate-checked queries on the trigger node
\* and on each statement beneath it all succeed, in any order.
C19_ActiveRootShortCircuits ==
    /\ (last.root # 0 /\ tree.kind[last.root] = "Active")
          => /\ Returned /\ last.cost = 0
             /\ \A n \in NodesOf(tree) : user1[n] # last.root
             /\ \A d \in Below(tree, last.root) : last.user2[d] = 0
             /\ last.osp => /\ last.user2[last.root] = 1
                            /\ output = <<[indent |-> 1, cost |-> 0,
                                           node |-> last.root]>>
    /\ \A a \in NodesOf(tree) :
          (/\ tree.kind[a] = "Active" /\ last.assertNoDups
           /\ last.root \in ActiveAndStatements(tree, a)
           /\ last.before \subseteq ActiveAndStatements(tree, a)
           /\ last.root \notin last.before \ {a})
              => Returned

\* After duplicate-checked queries on both statements beneath a trigger
\* node, the duplicate-checked query on the trigger node returned 0 and the
\* statements kept their claimers.
C19_Witness ==
    /\ tree.kind[1] = "Active" /\ ChildSeq(tree, 1) = <<2, 6>>
    /\ Returned /\ last.assertNoDups /\ last.root = 1
    /\ last.before = {2, 6} /\ last.cost = 0
    /\ user1[1] = 0 /\ user1[2] = 2 /\ user1[6] = 6

\* The nodes of the callee bodies of the tree.
CalleeNodes(t) ==
    UNION {SubtreeOf(t, f) : f \in {n \in NodesOf(t) : t.kind[n] = "CFunc"}}

\* C20: with duplicate-checking enabled the nodes of a callee body are
\* neither checked nor claimed, whether traced through a call site or
\* queried as root, so queries over disjoint subtrees that call the same
\* callee both succeed; the in-callee mode is restored when the callee visit
\* ends, so the statements after a call site are claimed by the query and a
\* later query on one of them fails the check.
C20_CalleeUnchecked ==
    /\ \A n \in CalleeNodes(tree) : user1[n] = 0
    /\ Returned => ~last.inCFunc
    /\ (/\ Returned /\ last.assertNoDups /\ tree.kind[last.root] = "Node"
        /\ PlainStatements(tree, ChildSeq(tree, last.root)))
          => \A n \in LastSubtree : user1[n] = last.root
    /\ (/\ last.assertNoDups /\ PlainCall(tree, last.root)
        /\ \A r \in last.before : ~Overlap(tree, r, last.root)
        /\ \E r \in last.before :
              PlainCall(tree, r) /\ tree.funcp[r] = tree.funcp[last.root])
          => Returned
    /\ (/\ last.assertNoDups
        /\ \E r \in last.before :
              /\ tree.kind[r] = "Node" /\ Len(ChildSeq(tree, r)) = 2
              /\ PlainCall(tree, ChildSeq(tree, r)[1])
              /\ last.root = ChildSeq(tree, r)[2])
          => last.err = "dup" /\ last.errNode = last.root

\* After a query on the callee body itself, a duplicate-checked query on a
\* block of two call sites of that callee, whose body holds a suspension
\* point, returned: the block, both call sites and their arguments are
\* claimed by it and the callee body is not.
C20_Witness ==
    /\ Returned /\ last.assertNoDups /\ last.root = 1
    /\ last.before = {8} /\ tree.kind[1] = "Node"
    /\ tree.kind[2] = "NodeCCall" /\ tree.kind[6] = "NodeCCall"
    /\ tree.funcp[2] = 8 /\ tree.funcp[6] = 8 /\ tree.kind[9] = "CAwait"
    /\ user1[8] = 0 /\ user1[9] = 0
    /\ \A n \in {1, 2, 3, 4, 6, 7} : user1[n] = 1

\* The roots whose duplicate-checked queries may have set markers: those
\* that returned and, when the latest checked query was aborted, its root.
Claimers ==
    batch \cup (IF Aborted /\ last.assertNoDups THEN {last.root} ELSE {})

\* Every marker holds the root of a duplicate-checked query and sits on a
\* node of that root's subtree.
MarkersNameClaimer ==
    \A n \in NodesOf(tree) :
        user1[n] # 0 => /\ user1[n] \in Claimers
                        /\ n \in SubtreeOf(tree, user1[n])

\* A query leaves every marker that is set as it is.
MarkersKept ==
    \A n \in NodesOf(tree) : user1[n] # 0 => user1'[n] = user1[n]

\* C21: claim markers persist and identify their claimer.  Every marked node
\* holds the root of one duplicate-checked query of the batch and lies in
\* that root's subtree, and no later query, checked or unchecked, returning
\* or aborted, overwrites or clears a marker.
C21_MarkersPersist == []MarkersNameClaimer /\ [][MarkersKept]_vars

\* After duplicate-checked queries on the statements 2 and 6, the checked
\* query on the enclosing block claimed the block and was aborted at node 2;
\* the markers of the two earlier queries are in place.
C21_Witness ==
    /\ last.err = "dup" /\ last.root = 1 /\ last.errNode = 2
    /\ last.before = {2, 6} /\ batch = {2, 6}
    /\ user1[1] = 1 /\ user1[2] = 2 /\ user1[6] = 6 /\ user1[7] = 6

\* C22: the assertion at callee entry never fails: whenever a callee body is
\* entered, through a call site or as query root, the flag that ignores the
\* remaining statements is false, also when the arguments of the call site
\* contain a suspension point.
C22_CalleeEntryNotIgnoring == last.err # "cfuncIgnoring"

\* The latest query ended in the nesting error of visit(AstCFunc*) at node f
\* and returned nothing.
AbortedAtCFunc(f) ==
    /\ last.err = "cfunc" /\ last.errNode = f
    /\ last.cost = 0 /\ output = <<>>

\* Statement i of the list is a callee body and the statements before it are
\* generic subtrees or suspension points over generic nodes.
CFuncAt(t, list, i) ==
    /\ i \in DOMAIN list /\ t.kind[list[i]] = "CFunc"
    /\ \A j \in 1..(i - 1) :
          \/ OnlyKinds(t, SubtreeOf(t, list[j]), {"Node"})
          \/ PlainAwait(t, list[j])

\* C23: a callee body that is reached as a child, of the root block or of a
\* callee body (the root or a traced one), and not as the query root or by
\* the hand-off of a call site, aborts the query; the tracing-call flag is
\* false when a query returns, the assertion of the call site that the
\* callee cleared it never fails, and the flag is set at an abort only when
\* the callee's entry itself failed.
C23_CallBodyNesting ==
    /\ \A i \in 1..Cardinality(NodesOf(tree)) :
          (/\ last.root # 0 /\ OnClearMarkers
           /\ tree.kind[last.root] \in {"Node", "CFunc"}
           /\ CFuncAt(tree, ChildSeq(tree, last.root), i))
              => AbortedAtCFunc(ChildSeq(tree, last.root)[i])
    /\ \A i \in 1..Cardinality(NodesOf(tree)) :
          (/\ last.root # 0 /\ OnClearMarkers
           /\ PlainCall(tree, last.root)
           /\ CFuncAt(tree, ChildSeq(tree, tree.funcp[last.root]), i))
              => AbortedAtCFunc(ChildSeq(tree, tree.funcp[last.root])[i])
    /\ (last.root # 0 /\ tree.kind[last.root] = "CFunc"
                      /\ OnlyKinds(tree, Below(tree, last.root), {"Node"}))
          => Returned /\ last.cost = SumCost(tree, LastSubtree)
    /\ Returned => ~last.tracingCall
    /\ last.err # "tracingCall"
    /\ last.tracingCall => last.err = "cfuncIgnoring"

\* A query on a call site was aborted at a callee body nested as a child
\* in the traced callee body; the tracing-call flag was cleared at the
\* traced callee's entry.
C23_Witness ==
    /\ last.root = 3 /\ tree.kind[3] = "NodeCCall" /\ tree.funcp[3] = 5
    /\ tree.kind[6] = "CFunc" /\ AbortedAtCFunc(6)
    /\ ~last.tracingCall

\* What one query may write: `last` in the next state holds its arguments.
WritesAsAsked ==
    /\ ~last'.assertNoDups => user1' = user1
    /\ ~last'.osp => \A n \in NodesOf(tree) :
                         last'.user2[n] = 0 /\ user2'[n] = 0
    /\ tree' = tree

\* C24: a call with duplicate-checking disabled leaves every claim marker
\* unchanged, a call without a sink leaves every display stamp at 0, and no
\* call changes the tree (shape, kinds, intrinsic costs).
C24_WritesAsAsked == [][WritesAsAsked]_vars

\* An unchecked query without a sink returned on a block whose conditional
\* statement an earlier checked query had claimed: the markers are in place
\* and no node is stamped.
C24_Witness ==
    /\ Returned /\ ~last.assertNoDups /\ ~last.osp /\ last.root = 1
    /\ tree.kind[1] = "Node" /\ tree.kind[2] = "NodeIf"
    /\ 2 \in last.before /\ \A n \in {2, 3, 4, 5} : user1[n] = 2
    /\ \A n \in NodesOf(tree) : last.user2[n] = 0
    /\ last.cost > 0

\* The nodes a visit of e can enter: those below e and, for a call, the
\* callee body.
Inside(t, e) ==
    Below(t, e) \cup (IF t.kind[e] = "NodeCCall"
                      THEN SubtreeOf(t, t.funcp[e]) ELSE {})

\* The latest query counted every node of the generic subtrees S: it claimed
\* them when checking and stamped them with their subtree's cost when given
\* a sink.
CountedAll(S) ==
    \A n \in S :
        /\ last.assertNoDups => user1[n] = last.root
        /\ last.osp => last.user2[n] = SumCost(tree, SubtreeOf(tree, n)) + 1

\* The latest query entered no node of S.
SkippedAll(S) ==
    \A n \in S : (last.assertNoDups => user1[n] = 0) /\ last.user2[n] = 0

\* The statements of a list after its first suspension point.
AfterAwait(t, list) ==
    {list[i] : i \in (Len(UpToAwait(t, list)) + 2)..Len(list)}

\* C25: in a block [e, T] where a suspension point lies inside e, the
\* statement T is counted in full when e is a conditional, a fork or a call
\* site whose callee holds the suspension point; when e is a generic block
\* with the suspension point among its statements, the statements of e
\* after it and T are not entered and add nothing.
C25_AwaitScope ==
    /\ (/\ Returned /\ OnClearMarkers /\ tree.kind[last.root] = "Node"
        /\ Len(ChildSeq(tree, last.root)) = 2
        /\ OnlyKinds(tree, SubtreeOf(tree, ChildSeq(tree, last.root)[2]),
                     {"Node"})
        /\ tree.kind[ChildSeq(tree, last.root)[1]]
              \in {"NodeIf", "NodeCond", "Fork", "NodeCCall"}
        /\ \E a \in Inside(tree, ChildSeq(tree, last.root)[1]) :
              tree.kind[a] = "CAwait")
          => /\ CountedAll(SubtreeOf(tree, ChildSeq(tree, last.root)[2]))
             /\ ~last.ignoreRemaining
             /\ last.cost
                  = tree.cost[last.root]
                    + Estimate(tree, ChildSeq(tree, last.root)[1])
                    + SumCost(tree, SubtreeOf(tree,
                                       ChildSeq(tree, last.root)[2]))
    /\ (/\ Returned /\ OnClearMarkers /\ tree.kind[last.root] = "Node"
        /\ Len(ChildSeq(tree, last.root)) = 2
        /\ tree.kind[ChildSeq(tree, last.root)[1]] = "Node"
        /\ SimpleBranch(tree, ChildSeq(tree, last.root)[1])
        /\ HasAwait(tree, ChildSeq(tree, ChildSeq(tree, last.root)[1])))
          => /\ SkippedAll(SubtreeOf(tree, ChildSeq(tree, last.root)[2]))
             /\ \A s \in AfterAwait(tree, ChildSeq(tree,
                               ChildSeq(tree, last.root)[1])) :
                   SkippedAll(SubtreeOf(tree, s))
             /\ last.ignoreRemaining
             /\ last.cost <= tree.cost[last.root]
                              + Estimate(tree, ChildSeq(tree, last.root)[1])

\* A checked query with a sink on a block [call, T] whose callee body holds
\* a suspension point returned with T and the node below it claimed and
\* stamped, while the statement after the suspension point in the callee
\* was not stamped.
C25_Witness ==
    /\ Returned /\ last.assertNoDups /\ last.osp /\ last.before = {}
    /\ last.root = 1 /\ ChildSeq(tree, 1) = <<2, 8>>
    /\ tree.kind[2] = "NodeCCall" /\ ChildSeq(tree, 7) = <<4, 5>>
    /\ tree.kind[4] = "CAwait" /\ tree.cost[8] = 1 /\ tree.cost[9] = 1
    /\ user1[8] = 1 /\ user1[9] = 1 /\ last.user2[8] = 3 /\ last.user2[9] = 2
    /\ last.user2[5] = 0 /\ last.user2[6] # 0

\* C26: every estimate call that returns gives the value the visitor
\* computes for the same tree and root from clear markers, without
\* duplicate checking and without a sink: the flags of the call and the
\* markers and stamps earlier calls left do not change the returned cost.
C26_CostOfTreeAlone ==
    Returned => last.cost = Estimate(tree, last.root)

\* A duplicate-checked query with a sink returned a positive cost while
\* markers of an earlier checked query on another root were in place and an
\* unchecked query on the same tree had been possible before.
C26_Witness ==
    /\ Returned /\ last.assertNoDups /\ last.osp
    /\ last.before # {} /\ last.root \notin last.before
    /\ \E n \in NodesOf(tree) : user1[n] # 0 /\ user1[n] # last.root
    /\ \E n \in NodesOf(tree) : last.user2[n] # 0
    /\ last.cost > 0

\* C27: a query over a tree without a callee-body node never fails the
\* assertion of startVisitBase: no node is entered through the base
\* bookkeeping while the remaining statements are ignored.
C27_NeverEnterIgnoring ==
    (\A n \in NodesOf(tree) : tree.kind[n] # "CFunc")
        => last.err # "ignoring"

\* A checked query over a block [await, conditional, s2] without callee
\* body returned with the flag set: the node below the await was claimed,
\* the conditional and s2 after it were not entered.
C27_Witness ==
    /\ Returned /\ last.assertNoDups /\ last.before = {} /\ last.root = 1
    /\ \A n \in NodesOf(tree) : tree.kind[n] # "CFunc"
    /\ tree.kind[2] = "CAwait" /\ tree.kind[5] = "NodeIf"
    /\ ChildSeq(tree, 1) = <<2, 5, 6>>
    /\ last.ignoreRemaining
    /\ user1[3] = 1 /\ user1[5] = 0 /\ user1[6] = 0

====
